---- MODULE Spec2Model ----
(***************************************************************************)
(* Model of rbwr_desktop_app.py: the reactor simulation (RBWRReactor) and  *)
(* the Tk application that drives it (RBWRApp).                            *)
(*                                                                         *)
(* Floating-point fields are held as fixed-point integers:                 *)
(*   thermal_power, temperature, feedwater_flow, generator_load,           *)
(*   xenon_poisoning            in millionths of their unit (Micro),       *)
(*   pressure, turbine_speed    in thousandths of their unit (Milli),      *)
(*   rods_position              in hundredths of a percent (Centi),        *)
(*   fuel_remaining             in ten-thousandths of a percent (FuelUnit),*)
(*   circulation_flow           in whole percent.                          *)
(* A product with a fraction is rounded toward zero to the field's         *)
(* resolution, as a float product is rounded to the float's resolution.    *)
(***************************************************************************)
EXTENDS Integers, Sequences, FiniteSets, TLC

VARIABLES
    reactor,            \* RBWRApp.reactor: the RBWRReactor object's fields
    running,            \* RBWRApp.running
    rod_scale,          \* value held by the rod slider (whole percent)
    rod_scale_state,    \* "normal" | "disabled"
    circ_button_state,  \* "normal" | "disabled"
    scram_button_text,  \* text of the scram button
    auto_button_bg,     \* background colour of the auto button
    status_var,         \* text of the status bar
    value_vars,         \* the ten displayed values
    after_queue,        \* number of update_display callbacks queued by root.after
    destroyed,          \* root.destroy() has been called
    ticks,              \* number of iterations update_loop has performed
    lastOp,             \* the handler or loop step that ran last
    update_loop,        \* the background thread: its position and its locals
    tick_end,           \* the fields update() writes, as the last completed tick left them
    ticks_after_close   \* number of ticks completed since on_closing

vars == << reactor, running, rod_scale, rod_scale_state, circ_button_state,
           scram_button_text, auto_button_bg, status_var, value_vars,
           after_queue, destroyed, ticks, lastOp,
           update_loop, tick_end, ticks_after_close >>

thread_vars == << update_loop, tick_end, ticks_after_close >>

ui == << rod_scale_state, circ_button_state, scram_button_text,
         auto_button_bg, status_var, value_vars >>

----------------------------------------------------------------------------
(* Bounds of the model *)

\* update_loop iterations explored
MaxTicks == 2

\* update_loop iterations explored with every handler racing against them
MaxRaceTicks == 1

----------------------------------------------------------------------------
(* Units *)

Micro    == 1000 * 1000
Milli    == 1000
Centi    == 100
FuelUnit == 10 * 1000

Max(a, b) == IF a >= b THEN a ELSE b
Min(a, b) == IF a <= b THEN a ELSE b

\* a * n / d rounded toward zero, computed without leaving 32 bits
\* (a of any sign, 0 <= n, 0 < d)
MulDivPos(a, n, d) == (a \div d) * n + ((a % d) * n) \div d
MulDiv(a, n, d)    == IF a >= 0 THEN MulDivPos(a, n, d) ELSE 0 - MulDivPos(0 - a, n, d)

\* Python int(x): x (in units of 1/unit) truncated toward zero to a whole number
PyInt(x, unit) == IF x >= 0 THEN (x \div unit) * unit ELSE 0 - (((0 - x) \div unit) * unit)

\* f"{x:.Nf}": x (in units of 1/unit) rounded to the nearest 1/shown
Format(x, unit, shown) ==
    LET step == unit \div shown
    IN  IF x >= 0 THEN (x + step \div 2) \div step
                  ELSE 0 - (((0 - x) + step \div 2) \div step)

----------------------------------------------------------------------------
(* random.uniform draws.  The power factor, which feeds the next tick, is  *)
(* drawn from the end points of its interval; the other draws of a tick,   *)
(* whose results the next tick overwrites (the slider is read into         *)
(* rods_position before every update), are drawn together as one of the    *)
(* vectors of NoiseDraws                                                   *)

PowerDraws == {95, 105}         \* uniform(0.95, 1.05), in hundredths

\* tn: uniform(-2, 2), pn: uniform(-100, 100), fn: uniform(-10, 10),
\* sn: uniform(-50, 50), d: uniform(-0.1, 0.1), xn: uniform(-0.5, 0.5);
\* the low pn is a value whose sum with the power term int() truncates
NoiseDraws ==
    { [ tn |-> 0 - 2 * Micro, pn |-> 0 - 99500, fn |-> 0 - 10 * Micro,
        sn |-> 0 - 50 * Milli, d |-> 0 - 10, xn |-> 0 - 500000 ],
      [ tn |-> 2 * Micro, pn |-> 100 * Milli, fn |-> 10 * Micro,
        sn |-> 50 * Milli, d |-> 10, xn |-> 500000 ] }

\* positions the user drags the rod slider to
SliderValues  == {0, 50, 100}

----------------------------------------------------------------------------
(* RBWRReactor *)

PowerMin    == 100                 \* 0.0001
PowerMax    == 120 * Micro         \* 120.0
TargetPower == 95 * Micro          \* 95.0
XenonBase   == 10100000            \* 10.1
XenonMax    == 35 * Micro          \* 35.0
RodsMax     == 100 * Centi

\* RBWRReactor.__init__
ReactorInit ==
    [ thermal_power    |-> PowerMin,
      temperature      |-> 31 * Micro,
      pressure         |-> 0,
      feedwater_flow   |-> 0,
      turbine_speed    |-> 0,
      generator_load   |-> 0,
      rods_position    |-> 0,
      circulation_flow |-> 0,
      xenon_poisoning  |-> XenonBase,
      fuel_remaining   |-> 98 * FuelUnit,
      is_scrammed      |-> FALSE,
      is_auto          |-> FALSE ]

\* the scram decay factors
ScramPowerPressureFactor(p) == MulDiv(p, 8, 10)
ScramPower(p)    == MulDiv(p, 7, 10)
ScramPressure(p) == MulDiv(p, 8, 10)
ScramTurbine(t)  == MulDiv(t, 9, 10)

\* update(), scrammed branch
UpdateScrammed(r) ==
    LET p == ScramPower(r.thermal_power)
    IN  [ r EXCEPT !.thermal_power  = p,
                   !.temperature    = r.temperature - 5 * Micro,
                   !.pressure       = ScramPressure(r.pressure),
                   !.turbine_speed  = ScramTurbine(r.turbine_speed),
                   !.generator_load = p * 12 ]

\* rod_effect = (100 - rods_position) / 100, in ten-thousandths
RodEffect(rods) == 100 * Centi - rods

\* the auto mode's rod adjustment
AutoRods(rods, power) ==
    IF power < TargetPower THEN Max(0, rods - 50) ELSE Min(RodsMax, rods + 50)

\* thermal_power * rod_effect * uniform(0.95, 1.05), clamped
ClampPower(p) == Max(PowerMin, Min(PowerMax, p))
NextPower(power, rod_effect, u) ==
    ClampPower(MulDiv(MulDiv(power, rod_effect, 100 * Centi), u, 100))

\* the manual mode's rod drift, clamped
ClampRodsNoCeiling(rods) == Max(0, rods)
ClampRods(rods) == Max(0, Min(RodsMax, rods))
DriftRods(rods, d) == ClampRods(rods + d)

ClampCirculation(c) == Min(100, Max(0, c))
CirculationPenaltyInverted(c) == IF c < 50 THEN 0 ELSE 2 * Micro
CirculationPenalty(c) == IF c < 50 THEN 2 * Micro ELSE 0

NextXenon(power, n) == Min(XenonMax, XenonBase + power \div 5 + n)

FuelBurnAdds(f) == Max(0, f + 1)
FuelBurn(f) == Max(0, f - 1)

\* update(), normal branch, for the draws u, tn, pn, fn, sn, d, xn
UpdateNormal(r, u, tn, pn, fn, sn, d, xn) ==
    LET rod_effect == RodEffect(r.rods_position)
        rods1 == IF r.is_auto THEN AutoRods(r.rods_position, r.thermal_power)
                              ELSE r.rods_position
        p     == NextPower(r.thermal_power, rod_effect, u)
        rods2 == IF ~r.is_auto THEN DriftRods(rods1, d) ELSE rods1
        circ  == ClampCirculation(r.circulation_flow)
    IN  [ r EXCEPT !.rods_position    = rods2,
                   !.thermal_power    = p,
                   !.temperature      = 30 * Micro + p * 3 + tn + CirculationPenalty(circ),
                   !.pressure         = PyInt(MulDiv(p, 60, 1000) + pn, Milli),
                   !.feedwater_flow   = p * 4 + fn,
                   !.turbine_speed    = PyInt(MulDiv(p, 22, 1000) + sn, Milli),
                   !.generator_load   = PyInt(p * 12, Micro),
                   !.circulation_flow = circ,
                   !.xenon_poisoning  = NextXenon(p, xn),
                   !.fuel_remaining   = FuelBurn(r.fuel_remaining) ]

----------------------------------------------------------------------------
(* RBWRApp *)

StatusNormal   == "Status: NORMAL"
StatusScrammed == "Status: SCRAMMED - RODS INSERTING"
StatusAuto     == "Status: AUTO MODE ACTIVE"
StatusManual   == "Status: MANUAL CONTROL"

\* create_display: every value starts as the text "0.00"
ValueVarsInit ==
    [ power_var |-> 0, temp_var |-> 0, pressure_var |-> 0, flow_var |-> 0,
      turbine_var |-> 0, load_var |-> 0, rods_var |-> 0, circ_var |-> 0,
      xenon_var |-> 0, fuel_var |-> 0 ]

\* the Scale widget (from 0 to 100, resolution 1) rounds a value it is set to
ScaleSet(rods) == Min(100, Max(0, (rods + Centi \div 2) \div Centi))

\* the fields of the reactor that update() and the slider read of update_loop write
TickFields(r) ==
    << r.thermal_power, r.temperature, r.pressure, r.feedwater_flow, r.turbine_speed,
       r.generator_load, r.rods_position, r.xenon_poisoning, r.fuel_remaining >>

\* the draws of a tick that has made none
NoDraw == [ tn |-> 0, pn |-> 0, fn |-> 0, sn |-> 0, d |-> 0, xn |-> 0 ]

\* update_loop at position pc outside update(), where update()'s locals do not exist:
\* rod_effect, the circulation_flow value line 62 has loaded, the rod rules
\* (lines 38-44, lines 57-59) the call has applied and its draws
LoopIdle(pc) ==
    [ pc |-> pc, rod_effect |-> 0, circulation_flow |-> 0, rod_rules |-> {},
      draw |-> NoDraw ]

Init ==
    /\ reactor = ReactorInit
    /\ running = TRUE
    /\ rod_scale = 0
    /\ rod_scale_state = "normal"
    /\ circ_button_state = "normal"
    /\ scram_button_text = "SCRAM REACTOR"
    /\ auto_button_bg = "darkgreen"
    /\ status_var = StatusNormal
    /\ value_vars = ValueVarsInit
    /\ after_queue = 0
    /\ destroyed = FALSE
    /\ ticks = 0
    /\ lastOp = "init"
    /\ update_loop = LoopIdle("check")
    /\ tick_end = TickFields(ReactorInit)
    /\ ticks_after_close = 0

\* one iteration of update_loop: the slider is read into rods_position, the
\* reactor is updated and update_display is queued on the event loop
Tick ==
    /\ running
    /\ ticks < MaxTicks
    /\ LET r0 == [reactor EXCEPT !.rods_position = rod_scale * Centi]
       IN  IF r0.is_scrammed
           THEN reactor' = UpdateScrammed(r0)
           ELSE \E u \in PowerDraws, n \in NoiseDraws :
                    reactor' = UpdateNormal(r0, u, n.tn, n.pn, n.fn, n.sn, n.d, n.xn)
    /\ after_queue' = after_queue + 1
    /\ ticks' = ticks + 1
    /\ lastOp' = "tick"
    /\ tick_end' = TickFields(reactor')
    /\ UNCHANGED << running, rod_scale, ui, destroyed, update_loop, ticks_after_close >>

\* the values update_display formats
FormatValues(r) ==
    [ power_var    |-> Format(r.thermal_power, Micro, 10000),
      temp_var     |-> Format(r.temperature, Micro, 1),
      pressure_var |-> r.pressure,
      flow_var     |-> Format(r.feedwater_flow, Micro, 10),
      turbine_var  |-> r.turbine_speed,
      load_var     |-> r.generator_load,
      rods_var     |-> Format(r.rods_position, Centi, 100),
      circ_var     |-> r.circulation_flow,
      xenon_var    |-> Format(r.xenon_poisoning, Micro, 10),
      fuel_var     |-> Format(r.fuel_remaining, FuelUnit, 10) ]

DisplayStatus(r) ==
    IF r.is_scrammed THEN StatusScrammed
    ELSE IF r.is_auto THEN StatusAuto ELSE StatusManual

\* the event loop runs a queued update_display
UpdateDisplay ==
    /\ ~destroyed
    /\ after_queue > 0
    /\ after_queue' = after_queue - 1
    /\ value_vars' = FormatValues(reactor)
    /\ rod_scale' = IF ~reactor.is_scrammed /\ rod_scale_state = "normal"
                    THEN ScaleSet(reactor.rods_position) ELSE rod_scale
    /\ status_var' = DisplayStatus(reactor)
    /\ scram_button_text' = IF reactor.is_scrammed THEN "RESET SCRAM" ELSE "SCRAM REACTOR"
    /\ auto_button_bg' = IF reactor.is_scrammed THEN auto_button_bg
                         ELSE IF reactor.is_auto THEN "green" ELSE "darkgreen"
    /\ lastOp' = "update_display"
    /\ UNCHANGED << reactor, running, rod_scale_state, circ_button_state, destroyed, ticks >>
    /\ UNCHANGED thread_vars

\* what scram_reactor leaves in the reactor and in the two widgets it configures
ScramReactorFieldsKeepAuto(r) == [r EXCEPT !.is_scrammed = ~@]
ScramReactorFields(r) ==
    IF r.is_scrammed THEN [r EXCEPT !.is_scrammed = FALSE]
                     ELSE [r EXCEPT !.is_scrammed = TRUE, !.is_auto = FALSE]
ScramWidgetStateNormal(r) == "normal"
ScramWidgetState(r) == IF r.is_scrammed THEN "normal" ELSE "disabled"

\* the SCRAM REACTOR / RESET SCRAM button
scram_reactor ==
    /\ ~destroyed
    /\ reactor' = ScramReactorFields(reactor)
    /\ rod_scale_state' = ScramWidgetState(reactor)
    /\ circ_button_state' = ScramWidgetState(reactor)
    /\ lastOp' = "scram_reactor"
    /\ UNCHANGED << running, rod_scale, scram_button_text, auto_button_bg, status_var,
                    value_vars, after_queue, destroyed, ticks >>
    /\ UNCHANGED thread_vars

ToggleCirculationStuck(c) == IF c < 50 THEN 100 ELSE c
ToggleCirculationFlow(c) == IF c < 50 THEN 100 ELSE 0

\* the TOGGLE CIRCULATION button; a disabled button does not run its command
toggle_circulation ==
    /\ ~destroyed
    /\ circ_button_state = "normal"
    /\ reactor' = [reactor EXCEPT !.circulation_flow = ToggleCirculationFlow(@)]
    /\ lastOp' = "toggle_circulation"
    /\ UNCHANGED << running, rod_scale, ui, after_queue, destroyed, ticks >>
    /\ UNCHANGED thread_vars

ToggleAutoSwitchesOn(r) == [r EXCEPT !.is_auto = TRUE]
ToggleAutoFields(r) == [r EXCEPT !.is_auto = ~@]

\* the AUTO MODE button
toggle_auto ==
    /\ ~destroyed
    /\ reactor' = ToggleAutoFields(reactor)
    /\ lastOp' = "toggle_auto"
    /\ UNCHANGED << running, rod_scale, ui, after_queue, destroyed, ticks >>
    /\ UNCHANGED thread_vars

\* the user drags the rod slider; a disabled slider does not move
DragSlider ==
    /\ ~destroyed
    /\ rod_scale_state = "normal"
    /\ \E v \in SliderValues : rod_scale' = v
    /\ lastOp' = "drag_slider"
    /\ UNCHANGED << reactor, running, ui, after_queue, destroyed, ticks >>
    /\ UNCHANGED thread_vars

\* the window is closed
on_closing ==
    /\ ~destroyed
    /\ running' = FALSE
    /\ destroyed' = TRUE
    /\ lastOp' = "on_closing"
    /\ UNCHANGED << reactor, rod_scale, ui, after_queue, ticks >>
    /\ UNCHANGED thread_vars

Next ==
    \/ Tick
    \/ UpdateDisplay
    \/ scram_reactor
    \/ toggle_circulation
    \/ toggle_auto
    \/ DragSlider
    \/ on_closing

Spec == Init /\ [][Next]_vars

----------------------------------------------------------------------------
(* The two threads.  update_loop runs on a background thread while the      *)
(* button handlers and update_display run on the Tk event loop; nothing     *)
(* locks the reactor, so a handler can run between any two steps below.     *)
(* update() is cut where it reads or writes a field a handler also writes   *)
(* (is_scrammed, is_auto, circulation_flow) and after each group of fields  *)
(* it assigns; the statements of one step run without interruption, which   *)
(* is one of the schedules the interpreter can produce.                     *)

\* the fields lines 46-54 assign, for the draws u, tn, pn, fn, sn
NormalPower(r, rod_effect, u, tn, pn, fn, sn) ==
    LET p == NextPower(r.thermal_power, rod_effect, u)
    IN  [ r EXCEPT !.thermal_power  = p,
                   !.temperature    = 30 * Micro + p * 3 + tn,
                   !.pressure       = PyInt(MulDiv(p, 60, 1000) + pn, Milli),
                   !.feedwater_flow = p * 4 + fn,
                   !.turbine_speed  = PyInt(MulDiv(p, 22, 1000) + sn, Milli),
                   !.generator_load = PyInt(p * 12, Micro) ]

\* the store of line 62 and lines 63-72, for the loaded circulation_flow c and
\* the draw xn
NormalFinish(r, c, xn) ==
    LET circ == ClampCirculation(c)
    IN  [ r EXCEPT !.circulation_flow = circ,
                   !.temperature      = @ + CirculationPenalty(circ),
                   !.xenon_poisoning  = NextXenon(r.thermal_power, xn),
                   !.fuel_remaining   = FuelBurn(r.fuel_remaining) ]

\* while self.running
LoopConditionAlways == TRUE
LoopCondition == running

\* a thread step leaves the widgets and the window as they are
ThreadFrame == UNCHANGED << running, rod_scale, ui, destroyed >>

\* line 205: the loop condition; max bounds the iterations explored
LoopCheck(max) ==
    /\ update_loop.pc = "check"
    /\ IF LoopCondition
       THEN /\ ticks < max
            /\ ticks' = ticks + 1
            /\ update_loop' = LoopIdle("read_slider")
       ELSE /\ ticks' = ticks
            /\ update_loop' = LoopIdle("done")
    /\ lastOp' = "update_loop"
    /\ ThreadFrame
    /\ UNCHANGED << reactor, after_queue, tick_end, ticks_after_close >>

\* line 207: the slider is read into rods_position; once the window is
\* destroyed the call may raise, which ends the thread
ReadSlider ==
    /\ update_loop.pc = "read_slider"
    /\ \/ /\ reactor' = [reactor EXCEPT !.rods_position = rod_scale * Centi]
          /\ update_loop' = LoopIdle("branch")
       \/ /\ destroyed
          /\ reactor' = reactor
          /\ update_loop' = LoopIdle("done")
    /\ lastOp' = "update_loop"
    /\ ThreadFrame
    /\ UNCHANGED << after_queue, ticks, tick_end, ticks_after_close >>

\* line 26: update() reads is_scrammed
UpdateBranch ==
    /\ update_loop.pc = "branch"
    /\ update_loop' = LoopIdle(IF reactor.is_scrammed THEN "scram" ELSE "rods_auto")
    /\ lastOp' = "update_loop"
    /\ ThreadFrame
    /\ UNCHANGED << reactor, after_queue, ticks, tick_end, ticks_after_close >>

\* lines 28-32: the scram branch, which ends update()
UpdateScram ==
    /\ update_loop.pc = "scram"
    /\ reactor' = UpdateScrammed(reactor)
    /\ update_loop' = LoopIdle("after")
    /\ tick_end' = TickFields(reactor')
    /\ ticks_after_close' = ticks_after_close + (IF running THEN 0 ELSE 1)
    /\ lastOp' = "update_loop"
    /\ ThreadFrame
    /\ UNCHANGED << after_queue, ticks >>

\* lines 35-44: rod_effect, then the first read of is_auto and the auto adjustment
UpdateRods ==
    /\ update_loop.pc = "rods_auto"
    /\ update_loop' = [ update_loop EXCEPT
                          !.pc = "power",
                          !.rod_effect = RodEffect(reactor.rods_position),
                          !.rod_rules = IF reactor.is_auto THEN {"auto"} ELSE {} ]
    /\ reactor' = IF reactor.is_auto
                  THEN [reactor EXCEPT !.rods_position = AutoRods(@, reactor.thermal_power)]
                  ELSE reactor
    /\ lastOp' = "update_loop"
    /\ ThreadFrame
    /\ UNCHANGED << after_queue, ticks, tick_end, ticks_after_close >>

\* lines 46-54: the power and the fields derived from it
UpdatePower ==
    /\ update_loop.pc = "power"
    /\ \E u \in PowerDraws, n \in NoiseDraws :
          /\ reactor' = NormalPower(reactor, update_loop.rod_effect, u, n.tn, n.pn, n.fn, n.sn)
          /\ update_loop' = [update_loop EXCEPT !.pc = "drift", !.draw = n]
    /\ lastOp' = "update_loop"
    /\ ThreadFrame
    /\ UNCHANGED << after_queue, ticks, tick_end, ticks_after_close >>

\* lines 57-59: the second read of is_auto and the drift
UpdateDrift ==
    /\ update_loop.pc = "drift"
    /\ update_loop' = [ update_loop EXCEPT
                          !.pc = "circ_load",
                          !.rod_rules = IF reactor.is_auto THEN @ ELSE @ \cup {"drift"} ]
    /\ reactor' = IF reactor.is_auto
                  THEN reactor
                  ELSE [reactor EXCEPT !.rods_position = DriftRods(@, update_loop.draw.d)]
    /\ lastOp' = "update_loop"
    /\ ThreadFrame
    /\ UNCHANGED << after_queue, ticks, tick_end, ticks_after_close >>

\* line 62, right-hand side: circulation_flow is loaded
UpdateCircLoad ==
    /\ update_loop.pc = "circ_load"
    /\ update_loop' = [ update_loop EXCEPT !.pc = "circ_store",
                                           !.circulation_flow = reactor.circulation_flow ]
    /\ lastOp' = "update_loop"
    /\ ThreadFrame
    /\ UNCHANGED << reactor, after_queue, ticks, tick_end, ticks_after_close >>

\* line 62, the store, and lines 63-72, which end update()
UpdateCircStore ==
    /\ update_loop.pc = "circ_store"
    /\ reactor' = NormalFinish(reactor, update_loop.circulation_flow, update_loop.draw.xn)
    /\ update_loop' = LoopIdle("after")
    /\ tick_end' = TickFields(reactor')
    /\ ticks_after_close' = ticks_after_close + (IF running THEN 0 ELSE 1)
    /\ lastOp' = "update_loop"
    /\ ThreadFrame
    /\ UNCHANGED << after_queue, ticks >>

\* lines 211-212: update_display is queued and the thread sleeps; once the
\* window is destroyed the call may raise, which ends the thread
QueueDisplay ==
    /\ update_loop.pc = "after"
    /\ \/ /\ ~destroyed
          /\ after_queue' = after_queue + 1
          /\ update_loop' = LoopIdle("check")
       \/ /\ destroyed
          /\ after_queue' = after_queue
          /\ update_loop' \in {LoopIdle("check"), LoopIdle("done")}
    /\ lastOp' = "update_loop"
    /\ ThreadFrame
    /\ UNCHANGED << reactor, ticks, tick_end, ticks_after_close >>

UpdateLoopStep(max) ==
    \/ LoopCheck(max)
    \/ ReadSlider
    \/ UpdateBranch
    \/ UpdateScram
    \/ UpdateRods
    \/ UpdatePower
    \/ UpdateDrift
    \/ UpdateCircLoad
    \/ UpdateCircStore
    \/ QueueDisplay

NextThreads ==
    \/ UpdateLoopStep(MaxRaceTicks)
    \/ UpdateDisplay
    \/ scram_reactor
    \/ toggle_circulation
    \/ toggle_auto
    \/ DragSlider
    \/ on_closing

SpecThreads == Init /\ [][NextThreads]_vars

\* the threads with a user who only scrams and closes the window; the
\* operating system keeps scheduling the background thread
NextClose ==
    \/ UpdateLoopStep(MaxTicks)
    \/ UpdateDisplay
    \/ scram_reactor
    \/ on_closing

SpecClose == Init /\ [][NextClose]_vars /\ WF_vars(UpdateLoopStep(MaxTicks))

----------------------------------------------------------------------------
(* Properties *)

\* the reactor fields other than the two mode flags
OtherFields(r) ==
    << r.thermal_power, r.temperature, r.pressure, r.feedwater_flow, r.turbine_speed,
       r.generator_load, r.rods_position, r.circulation_flow, r.xenon_poisoning,
       r.fuel_remaining >>

Abs(a) == IF a >= 0 THEN a ELSE 0 - a

\* y is the fraction n/10 of x, to within the resolution of the field
IsTenths(y, x, n) == Abs(10 * y - n * x) < 10

\* C1: is_scrammed and is_auto are never both true.
C1_ScramExcludesAuto == ~(reactor.is_scrammed /\ reactor.is_auto)

\* C2: after every tick, scrammed or not, thermal_power lies in [0.0001, 120.0].
C2_PowerInDomainAfterTick ==
    lastOp = "tick" =>
        /\ reactor.thermal_power >= PowerMin
        /\ reactor.thermal_power <= PowerMax

\* C3: after every tick rods_position lies in [0, 100], xenon_poisoning in
\* [0, 35], fuel_remaining in [0, 100] and circulation_flow in [0, 100].
C3_BoundedFieldsAfterTick ==
    lastOp = "tick" =>
        /\ reactor.rods_position >= 0    /\ reactor.rods_position <= 100 * Centi
        /\ reactor.xenon_poisoning >= 0  /\ reactor.xenon_poisoning <= 35 * Micro
        /\ reactor.fuel_remaining >= 0   /\ reactor.fuel_remaining <= 100 * FuelUnit
        /\ reactor.circulation_flow >= 0 /\ reactor.circulation_flow <= 100

\* a manual tick has run with the slider at 100 and the drift clamped at the ceiling
C3_Witness ==
    /\ lastOp = "tick"
    /\ ~reactor.is_scrammed /\ ~reactor.is_auto
    /\ rod_scale = 100
    /\ reactor.rods_position = 100 * Centi

\* C4: no step of the system increases fuel_remaining, and it never drops below 0.
C4_FuelNeverIncreases ==
    [][ /\ reactor'.fuel_remaining <= reactor.fuel_remaining
        /\ reactor'.fuel_remaining >= 0 ]_vars

\* a normal tick has burnt fuel
C4_Witness == lastOp = "tick" /\ reactor.fuel_remaining < 98 * FuelUnit

\* C5: pressing SCRAM while not scrammed sets is_auto to false, and a tick taken
\* while scrammed replaces thermal_power by 0.7 times and pressure by 0.8 times
\* its prior value, with no noise.
C5_ScramDecay ==
    [][ /\ (lastOp' = "scram_reactor" /\ ~reactor.is_scrammed)
             => (reactor'.is_scrammed /\ ~reactor'.is_auto)
        /\ (lastOp' = "tick" /\ reactor.is_scrammed)
             => /\ IsTenths(reactor'.thermal_power, reactor.thermal_power, 7)
                /\ IsTenths(reactor'.pressure, reactor.pressure, 8) ]_vars

\* a scrammed tick has decayed a power and a pressure that a normal tick had set
C5_Witness ==
    /\ lastOp = "tick"
    /\ reactor.is_scrammed
    /\ reactor.pressure # 0
    /\ reactor.thermal_power < PowerMin
    /\ reactor.fuel_remaining < 98 * FuelUnit

\* C6: SCRAM followed by RESET SCRAM with no tick in between leaves is_scrammed
\* and is_auto false and every other reactor field unchanged: the SCRAM press
\* sets is_scrammed, clears is_auto and writes no other field; a RESET press
\* clears is_scrammed and writes no other field, so that pressed right after
\* SCRAM it leaves is_auto false.
C6_ScramThenReset ==
    [][ /\ (lastOp' = "scram_reactor" /\ ~reactor.is_scrammed)
             => /\ reactor'.is_scrammed /\ ~reactor'.is_auto
                /\ OtherFields(reactor') = OtherFields(reactor)
        /\ (lastOp' = "scram_reactor" /\ reactor.is_scrammed)
             => /\ ~reactor'.is_scrammed /\ reactor'.is_auto = reactor.is_auto
                /\ OtherFields(reactor') = OtherFields(reactor)
        /\ (lastOp = "scram_reactor" /\ reactor.is_scrammed /\ lastOp' = "scram_reactor")
             => ~reactor'.is_auto ]_vars

\* SCRAM and then RESET SCRAM have been pressed before any tick, and the reactor
\* is as it was constructed
C6_Witness ==
    /\ lastOp = "scram_reactor"
    /\ ~reactor.is_scrammed
    /\ ticks = 0
    /\ reactor = ReactorInit

\* C7: a tick taken while scrammed does not modify rods_position.
C7_ScrammedTickKeepsRods ==
    [][ (lastOp' = "tick" /\ reactor.is_scrammed)
            => reactor'.rods_position = reactor.rods_position ]_vars

\* C8: the rod slider and the circulation button are disabled exactly when
\* is_scrammed is true, and no step changes circulation_flow while scrammed.
C8_ControlsDisabledIffScrammed ==
    /\ [](/\ (rod_scale_state = "disabled") <=> reactor.is_scrammed
          /\ (circ_button_state = "disabled") <=> reactor.is_scrammed)
    /\ [][ reactor.is_scrammed
             => reactor'.circulation_flow = reactor.circulation_flow ]_vars

\* SCRAM has been pressed with the circulation on, and both controls are disabled
C8_Witness ==
    /\ lastOp = "scram_reactor"
    /\ reactor.is_scrammed
    /\ reactor.circulation_flow = 100
    /\ rod_scale_state = "disabled"
    /\ circ_button_state = "disabled"

\* C9: a toggle sets circulation_flow to 100 if it was below 50 and to 0
\* otherwise, so two toggles in a row from below 50 give 100 and then 0.
C9_TogglePair ==
    [][ /\ lastOp' = "toggle_circulation"
             => reactor'.circulation_flow
                    = (IF reactor.circulation_flow < 50 THEN 100 ELSE 0)
        /\ (lastOp = "toggle_circulation" /\ lastOp' = "toggle_circulation"
              /\ reactor.circulation_flow = 100)
             => reactor'.circulation_flow = 0 ]_vars

\* a toggle has brought circulation_flow back from 100 to 0
C9_Witness == lastOp = "toggle_circulation" /\ reactor.circulation_flow = 0

\* C10: the status indicator always shows one of the three mode texts.
C10_StatusIsOneOfThree == status_var \in {StatusScrammed, StatusAuto, StatusManual}

\* C11: toggle_auto flips is_auto and writes no other reactor field, and no
\* step other than the AUTO MODE and SCRAM presses writes is_auto, so that two
\* AUTO MODE presses with ticks but no SCRAM press in between restore is_auto.
C11_ToggleAutoTwice ==
    [][ /\ lastOp' = "toggle_auto"
             => /\ reactor'.is_auto = ~reactor.is_auto
                /\ reactor'.is_scrammed = reactor.is_scrammed
                /\ OtherFields(reactor') = OtherFields(reactor)
        /\ lastOp' \notin {"toggle_auto", "scram_reactor"}
             => reactor'.is_auto = reactor.is_auto ]_vars

\* AUTO MODE has been pressed a second time, after a tick in auto mode had
\* moved the rods by 0.5, and is_auto is back to false
C11_Witness ==
    /\ lastOp = "toggle_auto"
    /\ ~reactor.is_auto
    /\ ~reactor.is_scrammed
    /\ reactor.rods_position = 50 * Centi - 50

\* C15: while not scrammed, a display refresh that runs right after the user
\* has set the slider leaves the slider at the user's value for the next tick.
C15_SliderKeepsUserValue ==
    [][ (lastOp = "drag_slider" /\ lastOp' = "update_display")
            => rod_scale' = rod_scale ]_vars

\* C16: an auto-mode tick below the power target that follows a display
\* refresh, hence with no user input on the slider, lowers by 0.5 (down to 0)
\* the rod position the previous tick left.
C16_AutoAdjustmentsAccumulate ==
    [][ (/\ lastOp = "update_display" /\ lastOp' = "tick"
         /\ ~reactor.is_scrammed /\ reactor.is_auto
         /\ reactor.thermal_power < TargetPower
         /\ status_var = StatusAuto)
            => reactor'.rods_position = Max(0, reactor.rods_position - 50) ]_vars

\* C17: after a non-scrammed tick the temperature is 30 + 3 * thermal_power plus
\* a noise in [-2, 2], plus 2 exactly when circulation_flow is below 50.
C17_TemperatureAfterTick ==
    [][ (lastOp' = "tick" /\ ~reactor.is_scrammed)
            => LET noise == reactor'.temperature - 30 * Micro
                              - 3 * reactor'.thermal_power
                              - (IF reactor'.circulation_flow < 50 THEN 2 * Micro ELSE 0)
               IN  noise >= 0 - 2 * Micro /\ noise <= 2 * Micro ]_vars

\* a second normal tick in a row has run with the circulation off, and the
\* temperature holds one penalty at the top of the noise interval
C17_Witness ==
    /\ lastOp = "tick"
    /\ ~reactor.is_scrammed
    /\ reactor.circulation_flow = 0
    /\ reactor.fuel_remaining = 98 * FuelUnit - 2
    /\ reactor.temperature = 30 * Micro + 3 * reactor.thermal_power + 4 * Micro

\* C19: once the window is closed the background loop eventually stops, and at
\* most one tick is completed after the close.
C19_LoopStopsAfterClose ==
    /\ [](ticks_after_close <= 1)
    /\ (~running ~> update_loop.pc = "done")

\* the loop has stopped after completing, after the close, a tick that was
\* under way when the window was closed
C19_Witness ==
    /\ ~running
    /\ update_loop.pc = "done"
    /\ ticks_after_close = 1

\* C12: in an auto-mode tick the power update uses the rod_effect of the rod
\* position as adjusted by that tick.
C12_PowerUsesAdjustedRods ==
    (update_loop.pc = "power" /\ "auto" \in update_loop.rod_rules)
        => update_loop.rod_effect = RodEffect(reactor.rods_position)

\* C13: a non-scrammed tick applies exactly one of the two rod rules, whatever
\* the event loop does while it runs.
C13_ExactlyOneRodRule ==
    update_loop.pc = "circ_load" => Cardinality(update_loop.rod_rules) = 1

\* C14: circulation_flow keeps the value a TOGGLE CIRCULATION press gave it
\* until the next press: no other step changes it.
C14_TogglePressNotLost ==
    [][ lastOp' # "toggle_circulation"
            => reactor'.circulation_flow = reactor.circulation_flow ]_vars

\* the displayed values that only update() writes (the rod position, which the
\* loop also sets from the slider, and the circulation and status, which the
\* buttons set, are left out), and the same values as the last completed tick
\* left them
ShownTickFields ==
    << value_vars.power_var, value_vars.temp_var, value_vars.pressure_var,
       value_vars.flow_var, value_vars.turbine_var, value_vars.load_var,
       value_vars.xenon_var, value_vars.fuel_var >>
TickEndShown ==
    << Format(tick_end[1], Micro, 10000), Format(tick_end[2], Micro, 1), tick_end[3],
       Format(tick_end[4], Micro, 10), tick_end[5], tick_end[6],
       Format(tick_end[8], Micro, 10), Format(tick_end[9], FuelUnit, 10) >>

\* C18: a display refresh shows the values of one completed tick, never those
\* of a tick in progress.
C18_DisplayShowsCompletedTick ==
    lastOp = "update_display" => ShownTickFields = TickEndShown

====
